---- MODULE Spec2Model ----
(***************************************************************************)
(* Model of the statistical table detector of sudat/excel-matching         *)
(* (backend/services/table_detector.py): the region scan, the region       *)
(* analysis and the detect_tables entry point; TableCandidate.to_dict      *)
(* (backend/models/table_models.py); two concurrent detect_tables calls.   *)
(*                                                                         *)
(* Cell values are Python values (None, int, str); text is a sequence of   *)
(* one-character strings so that str(), strip() and float() are computed.  *)
(* Scores are exact rationals <<numerator, denominator>>; the code uses    *)
(* IEEE doubles.                                                           *)
(***************************************************************************)
EXTENDS Integers, Sequences, FiniteSets, TLC

(***************************************************************************)
(* Bounds of the model                                                     *)
(***************************************************************************)
\* rows of a presence-only sheet of two columns
TallRows == 4
\* rows of a presence-only sheet of three columns
WideRows == 3
\* rows of a presence-only sheet of two columns that lies across the scan
\* limits: its last row is row ROW_LIMIT + 1, its columns are COL_LIMIT and
\* COL_LIMIT + 1
LimitRows == 4
\* rows of a two-column sheet of text and numbers
TypedRows == 3
\* rows of a one-column sheet of blanks, zeros and text
BlankRows == 3
\* rows of a one-column sheet of text, numbers and dates
DatedRows == 4
\* rows of the one-column presence-only sheet of each of two concurrent calls
PairRows == 4
\* a serialized score is a multiple of 1 / 2^ScoreBits
ScoreBits == 5
\* rows of a presence-only sheet of two columns, arguments varying
RankRows == 4
\* rows of a presence-only sheet of one column, arguments varying
ColumnRows == 7

(***************************************************************************)
(* Program constants                                                       *)
(***************************************************************************)
\* range(1, min(max_row + 1, 201)): at most 200 rows are scanned
ROW_LIMIT == 200
\* range(1, min(max_col + 1, 51)): at most 50 columns are scanned
COL_LIMIT == 50
\* a box is recorded when it spans at least 3 rows
MIN_REGION_ROWS == 3
\* header candidates are the first 3 rows of the matrix
HEADER_ROWS == 3

None == [t |-> "none"]
IntV(n) == [t |-> "int", v |-> n]
StrV(s) == [t |-> "str", v |-> s]

Min2(a, b) == IF a <= b THEN a ELSE b
Max2(a, b) == IF a >= b THEN a ELSE b
SetMin(S) == CHOOSE x \in S : \A y \in S : x <= y

(***************************************************************************)
(* Text: str(), str.strip(), str.replace(",", ""), float()                 *)
(***************************************************************************)
DigitChars == <<"0", "1", "2", "3", "4", "5", "6", "7", "8", "9">>
Digits == {DigitChars[i] : i \in 1..10}
Whitespace == {" ", "\t", "\n"}

RECURSIVE NatText(_)
NatText(n) ==
    IF n < 10 THEN <<DigitChars[n + 1]>>
    ELSE NatText(n \div 10) \o <<DigitChars[(n % 10) + 1]>>

\* str(value) of a non-None cell value
PyStr(val) ==
    IF val.t = "int"
    THEN IF val.v < 0 THEN <<"-">> \o NatText(-val.v) ELSE NatText(val.v)
    ELSE val.v

RECURSIVE LStrip(_)
LStrip(s) ==
    IF s # <<>> /\ Head(s) \in Whitespace THEN LStrip(Tail(s)) ELSE s

RECURSIVE RStrip(_)
RStrip(s) ==
    IF s # <<>> /\ s[Len(s)] \in Whitespace
    THEN RStrip(SubSeq(s, 1, Len(s) - 1)) ELSE s

Strip(s) == RStrip(LStrip(s))

IsComma(ch) == ch = ","
NotComma(ch) == ~IsComma(ch)
RemoveCommas(s) == SelectSeq(s, NotComma)

AllDigits(s) == \A i \in 1..Len(s) : s[i] \in Digits

\* digits with at most one ".", at least one digit
IsMantissa(s) ==
    LET dots == {i \in 1..Len(s) : s[i] = "."}
    IN  /\ Cardinality(dots) <= 1
        /\ \A i \in 1..Len(s) : s[i] \in Digits \cup {"."}
        /\ \E i \in 1..Len(s) : s[i] \in Digits

DropSign(s) ==
    IF s # <<>> /\ Head(s) \in {"+", "-"} THEN Tail(s) ELSE s

IsExponent(s) ==
    LET d == DropSign(s) IN d # <<>> /\ AllDigits(d)

SpecialFloats ==
    {<<"i", "n", "f">>, <<"n", "a", "n">>,
     <<"i", "n", "f", "i", "n", "i", "t", "y">>}

\* float(s) does not raise ValueError (lower-case alphabet, no "_")
ParsesAsFloat(s) ==
    LET u == DropSign(Strip(s))
        es == {i \in 1..Len(u) : u[i] \in {"e", "E"}}
    IN  \/ u \in SpecialFloats
        \/ es = {} /\ IsMantissa(u)
        \/ /\ Cardinality(es) = 1
           /\ LET e == SetMin(es)
              IN  /\ IsMantissa(SubSeq(u, 1, e - 1))
                  /\ IsExponent(SubSeq(u, e + 1, Len(u)))

\* cell_value is not None and str(cell_value).strip() != ""
NonEmpty(val) == val # None /\ Strip(PyStr(val)) # <<>>

\* has_data without the exclusion of "0"
HasDataKeepsZero(val) ==
    val # None /\ Strip(PyStr(val)) # <<>>

\* has_data of _find_data_regions
HasData(val) ==
    /\ val # None
    /\ Strip(PyStr(val)) # <<>>
    /\ Strip(PyStr(val)) # <<"0">>

\* float(str(cell).replace(",", "")) does not raise
IsNumeric(val) == ParsesAsFloat(RemoveCommas(PyStr(val)))

(***************************************************************************)
(* Exact rationals <<n, d>>, d > 0, in lowest terms                        *)
(***************************************************************************)
RECURSIVE Gcd(_, _)
Gcd(a, b) == IF b = 0 THEN a ELSE Gcd(b, a % b)

Abs(a) == IF a < 0 THEN -a ELSE a

Rat(n, d) ==
    LET g == Gcd(Abs(n), d) IN <<n \div g, d \div g>>

RAdd(x, y) == Rat(x[1] * y[2] + y[1] * x[2], x[2] * y[2])
RMul(x, y) == Rat(x[1] * y[1], x[2] * y[2])
RLe(x, y) == x[1] * y[2] <= y[1] * x[2]
RLt(x, y) == x[1] * y[2] < y[1] * x[2]
RMin(x, y) == IF RLe(x, y) THEN x ELSE y
RZero == Rat(0, 1)
ROne == Rat(1, 1)

(***************************************************************************)
(* The worksheet: openpyxl's max_row / max_column (0 stands for None) and  *)
(* cell(row, col).value, None outside the stored cells                     *)
(***************************************************************************)
CellValue(sh, row, col) ==
    IF <<row, col>> \in DOMAIN sh.cells THEN sh.cells[<<row, col>>] ELSE None

\* max_row = sheet.max_row or 1
EffectiveMax(m) == IF m = 0 THEN 1 ELSE m

\* range(1, max_row + 1): the row loops without the cap
LastScanRowUncapped(max_row) == max_row

\* range(1, min(max_row + 1, 201)) and range(1, min(max_col + 1, 51))
LastScanRow(max_row) == Min2(max_row + 1, ROW_LIMIT + 1) - 1
LastScanCol(max_col) == Min2(max_col + 1, COL_LIMIT + 1) - 1

\* the keys of data_map whose value is True
BuildDataMap(sh, max_row, max_col) ==
    {p \in DOMAIN sh.cells :
        /\ p[1] \in 1..LastScanRow(max_row)
        /\ p[2] \in 1..LastScanCol(max_col)
        /\ HasData(sh.cells[p])}

(***************************************************************************)
(* _expand_data_region                                                     *)
(***************************************************************************)
\* the two rows after the anchor's are passed over when empty
StopsOnEmptyLater(row, start_row) == row > start_row + 2

\* if row > start_row + 1: break
StopsOnEmpty(row, start_row) == row > start_row + 1

\* the row loop: <<max_row_found, max_col_found>> when it ends
RECURSIVE RowGrowth(_, _, _, _, _, _, _, _)
RowGrowth(dm, row, last_row, last_col, start_row, start_col, mrf, mcf) ==
    IF row > last_row THEN <<mrf, mcf>>
    ELSE LET hit == {c \in start_col..last_col : <<row, c>> \in dm}
         IN  IF hit # {}
             THEN RowGrowth(dm, row + 1, last_row, last_col, start_row,
                            start_col, row, Max2(mcf, SetMin(hit)))
             ELSE IF StopsOnEmpty(row, start_row) THEN <<mrf, mcf>>
                  ELSE RowGrowth(dm, row + 1, last_row, last_col, start_row,
                                 start_col, mrf, mcf)

\* the column is tested in the anchor's row only
HasDataInAnchorRow(dm, col, start_row, mrf) == <<start_row, col>> \in dm

\* has_data_in_col: a True entry of the column in rows start_row..mrf
HasDataInCol(dm, col, start_row, mrf) ==
    \E r \in start_row..mrf : <<r, col>> \in dm

\* the column loop: max_col_found when it ends
RECURSIVE ColGrowth(_, _, _, _, _, _)
ColGrowth(dm, col, last_col, start_row, mrf, mcf) ==
    IF col > last_col THEN mcf
    ELSE IF HasDataInCol(dm, col, start_row, mrf)
         THEN ColGrowth(dm, col + 1, last_col, start_row, mrf, col)
         ELSE mcf

ExpandDataRegion(dm, start_row, start_col, max_row, max_col) ==
    LET rg == RowGrowth(dm, start_row, LastScanRow(max_row),
                        LastScanCol(max_col), start_row, start_col,
                        start_row, start_col)
        mcf == ColGrowth(dm, start_col, LastScanCol(max_col), start_row,
                         rg[1], rg[2])
    IN  [start_row |-> start_row, end_row |-> rg[1],
         start_col |-> start_col, end_col |-> mcf]

\* only the anchor's column of the box is marked
BoxAnchorColumn(region) ==
    (region.start_row..region.end_row) \X {region.start_col}

\* the cells visited.add is called for
Box(region) ==
    (region.start_row..region.end_row) \X (region.start_col..region.end_col)

\* a box of two rows recorded as well
RecordsRegionTwoRows(region) ==
    region.end_row - region.start_row + 1 >= MIN_REGION_ROWS - 1

\* region and (end_row - start_row + 1) >= 3
RecordsRegion(region) ==
    region.end_row - region.start_row + 1 >= MIN_REGION_ROWS

\* row-major order of the scan loops
Before(p, q) == p[1] < q[1] \/ (p[1] = q[1] /\ p[2] < q[2])

\* the present, unvisited cells the scan loops have still to reach
Anchors(dm, vis, pos) == {p \in dm \ vis : Before(pos, p)}
NextAnchor(dm, vis, pos) ==
    LET todo == Anchors(dm, vis, pos)
    IN  CHOOSE p \in todo : \A q \in todo : p = q \/ Before(p, q)

(***************************************************************************)
(* _analyze_data_region and its helpers                                    *)
(***************************************************************************)
\* Python's None for an optional index or row number
NO_INDEX == -1

\* data_matrix: the region's rows of cell values (1-based sequences)
DataMatrix(sh, region) ==
    [i \in 1..(region.end_row - region.start_row + 1) |->
        [j \in 1..(region.end_col - region.start_col + 1) |->
            CellValue(sh, region.start_row + i - 1,
                      region.start_col + j - 1)]]

IsStringCell(val) == NonEmpty(val) /\ ~IsNumeric(val)

\* non_empty_count and string_count of one row
NonEmptyCount(row) == Cardinality({j \in 1..Len(row) : NonEmpty(row[j])})
StringCount(row) == Cardinality({j \in 1..Len(row) : IsStringCell(row[j])})

StringRatio(row) == Rat(StringCount(row), NonEmptyCount(row))
FillRatio(row) == Rat(NonEmptyCount(row), Len(row))

\* header_score = string_ratio * 0.7 + fill_ratio * 0.3
HeaderScore(row) ==
    RAdd(RMul(StringRatio(row), Rat(7, 10)), RMul(FillRatio(row), Rat(3, 10)))

\* header_score >= best_score: a later row of equal score wins
BeatsBestOrTies(row, best_score) ==
    /\ RLe(best_score, HeaderScore(row))
    /\ RLe(Rat(1, 2), StringRatio(row))

\* header_score > best_score and string_ratio >= 0.5
BeatsBest(row, best_score) ==
    /\ RLt(best_score, HeaderScore(row))
    /\ RLe(Rat(1, 2), StringRatio(row))

\* the loop over the header candidates; row_idx is the 0-based index
RECURSIVE HeaderLoop(_, _, _, _)
HeaderLoop(data_matrix, row_idx, best_idx, best_score) ==
    IF row_idx >= Min2(HEADER_ROWS, Len(data_matrix)) THEN best_idx
    ELSE LET row == data_matrix[row_idx + 1]
         IN  IF NonEmptyCount(row) = 0
             THEN HeaderLoop(data_matrix, row_idx + 1, best_idx, best_score)
             ELSE IF BeatsBest(row, best_score)
                  THEN HeaderLoop(data_matrix, row_idx + 1, row_idx,
                                  HeaderScore(row))
                  ELSE HeaderLoop(data_matrix, row_idx + 1, best_idx,
                                  best_score)

\* _detect_header_row: 0-based index of the header row, or NO_INDEX
DetectHeaderRow(data_matrix) ==
    IF Len(data_matrix) < 2 THEN NO_INDEX
    ELSE HeaderLoop(data_matrix, 0, NO_INDEX, RZero)

\* re.match(r"\d{4}[-/]\d{1,2}[-/]\d{1,2}", s)
DateLike(s) ==
    \E m \in {1, 2} :
        /\ Len(s) >= 7 + m
        /\ AllDigits(SubSeq(s, 1, 4))
        /\ s[5] \in {"-", "/"}
        /\ AllDigits(SubSeq(s, 6, 5 + m))
        /\ s[6 + m] \in {"-", "/"}
        /\ s[7 + m] \in Digits

\* the non-empty values of one column in the data rows
ColData(data_matrix, data_start, col_idx) ==
    {i \in (data_start + 1)..Len(data_matrix) :
        NonEmpty(data_matrix[i][col_idx])}

ColNumeric(data_matrix, rows, col_idx) ==
    {i \in rows :
        ParsesAsFloat(RemoveCommas(Strip(PyStr(data_matrix[i][col_idx]))))}

ColDates(data_matrix, rows, col_idx) ==
    {i \in rows \ ColNumeric(data_matrix, rows, col_idx) :
        DateLike(Strip(PyStr(data_matrix[i][col_idx])))}

\* two levels only: the 0.6 level left out
ColConsistencyTwoLevels(numeric_count, date_count, total_values) ==
    LET numeric_ratio == Rat(numeric_count, total_values)
        date_ratio == Rat(date_count, total_values)
    IN  IF RLe(Rat(8, 10), numeric_ratio) \/ RLe(Rat(8, 10), date_ratio)
        THEN Rat(1, 1)
        ELSE Rat(3, 10)

\* the value appended to col_consistency_scores for one column
ColConsistency(numeric_count, date_count, total_values) ==
    LET numeric_ratio == Rat(numeric_count, total_values)
        date_ratio == Rat(date_count, total_values)
    IN  IF RLe(Rat(8, 10), numeric_ratio) \/ RLe(Rat(8, 10), date_ratio)
        THEN Rat(1, 1)
        ELSE IF RLe(Rat(6, 10), numeric_ratio) \/ RLe(Rat(6, 10), date_ratio)
             THEN Rat(6, 10)
             ELSE Rat(3, 10)

RECURSIVE RSum(_, _)
RSum(f, S) ==
    IF S = {} THEN RZero
    ELSE LET x == CHOOSE y \in S : TRUE IN RAdd(f[x], RSum(f, S \ {x}))

\* _calculate_data_consistency
CalculateDataConsistency(data_matrix, header_row_idx) ==
    IF Len(data_matrix) <= 1 THEN RZero
    ELSE LET data_start == IF header_row_idx # NO_INDEX
                           THEN header_row_idx + 1 ELSE 0
         IN  IF data_start >= Len(data_matrix) THEN RZero
             ELSE LET cols == {j \in 1..Len(data_matrix[1]) :
                                 Cardinality(ColData(data_matrix, data_start,
                                                     j)) >= 2}
                      score == [j \in cols |->
                          LET rows == ColData(data_matrix, data_start, j)
                          IN  ColConsistency(
                                Cardinality(ColNumeric(data_matrix, rows, j)),
                                Cardinality(ColDates(data_matrix, rows, j)),
                                Cardinality(rows))]
                  IN  IF cols = {} THEN RZero
                      ELSE RMin(RMul(RMul(RSum(score, cols),
                                          Rat(1, Cardinality(cols))),
                                     Rat(2, 10)),
                                Rat(2, 10))

\* the density term left uncapped: data_density * 3.0
CalculateQualityScoreUncapped(data_matrix, row_count, col_count, data_density, header_row_idx) ==
    LET density_score == RMul(data_density, Rat(3, 1))
        size_score == RMin(Rat(row_count * col_count, 100), Rat(3, 10))
        header_score == IF header_row_idx # NO_INDEX THEN Rat(2, 10)
                        ELSE RZero
        consistency_score ==
            CalculateDataConsistency(data_matrix, header_row_idx)
    IN  RMin(RAdd(RAdd(RAdd(density_score, size_score), header_score),
                  consistency_score),
             ROne)

\* _calculate_quality_score
CalculateQualityScore(data_matrix, row_count, col_count, data_density, header_row_idx) ==
    LET density_score == RMin(RMul(data_density, Rat(3, 1)), Rat(3, 10))
        size_score == RMin(Rat(row_count * col_count, 100), Rat(3, 10))
        header_score == IF header_row_idx # NO_INDEX THEN Rat(2, 10)
                        ELSE RZero
        consistency_score ==
            CalculateDataConsistency(data_matrix, header_row_idx)
    IN  RMin(RAdd(RAdd(RAdd(density_score, size_score), header_score),
                  consistency_score),
             ROne)

\* data_cells / row_count: the columns left out of total_cells
DataDensityPerRow(data_matrix, row_count, col_count) ==
    LET data_cells == Cardinality(
            {ij \in (1..Len(data_matrix)) \X (1..col_count) :
                NonEmpty(data_matrix[ij[1]][ij[2]])})
    IN  IF row_count > 0 THEN Rat(data_cells, row_count) ELSE RZero

\* data_density = data_cells / total_cells if total_cells > 0 else 0
DataDensity(data_matrix, row_count, col_count) ==
    LET total_cells == row_count * col_count
        data_cells == Cardinality(
            {ij \in (1..Len(data_matrix)) \X (1..col_count) :
                ij[2] <= Len(data_matrix[ij[1]])
                /\ NonEmpty(data_matrix[ij[1]][ij[2]])})
    IN  IF total_cells > 0 THEN Rat(data_cells, total_cells) ELSE RZero

\* the character U+5217 that starts a synthesized label, as one symbol
COLUMN_MARK == "U+5217"

\* the synthesized label of the column at 0-based position i of the region
Placeholder(i) == <<COLUMN_MARK>> \o NatText(i + 1)

\* every header cell stringified, a null cell as str(None)
HeadersStringifyNull(data_matrix, header_row_idx, col_count) ==
    IF header_row_idx # NO_INDEX
    THEN LET header_data == data_matrix[header_row_idx + 1]
         IN  [j \in 1..Len(header_data) |->
                 IF header_data[j] # None THEN PyStr(header_data[j])
                 ELSE <<"N", "o", "n", "e">>]
    ELSE [j \in 1..col_count |-> Placeholder(j - 1)]

\* headers: the header row's cells as text, or the synthesized labels
Headers(data_matrix, header_row_idx, col_count) ==
    IF header_row_idx # NO_INDEX
    THEN LET header_data == data_matrix[header_row_idx + 1]
         IN  [j \in 1..Len(header_data) |->
                 IF header_data[j] # None THEN PyStr(header_data[j])
                 ELSE Placeholder(j - 1)]
    ELSE [j \in 1..col_count |-> Placeholder(j - 1)]

\* row_dict[key] = value on a dict kept as its items in insertion order
DictSet(row_dict, key, value) ==
    IF \E n \in 1..Len(row_dict) : row_dict[n][1] = key
    THEN [n \in 1..Len(row_dict) |->
             IF row_dict[n][1] = key THEN <<key, value>> ELSE row_dict[n]]
    ELSE Append(row_dict, <<key, value>>)

\* the loop "for j, header in enumerate(headers)" from 1-based position j on
RECURSIVE RowDictLoop(_, _, _, _)
RowDictLoop(headers, row, j, row_dict) ==
    IF j > Len(headers) THEN row_dict
    ELSE LET value == IF j <= Len(row)
                      THEN IF row[j] # None THEN PyStr(row[j]) ELSE <<>>
                      ELSE <<>>
         IN  RowDictLoop(headers, row, j + 1,
                         DictSet(row_dict, headers[j], value))

\* sample_data: the row_dict of up to SAMPLE_ROWS rows from data_start_idx
SAMPLE_ROWS == 3

SampleData(data_matrix, headers, header_row_idx) ==
    LET data_start_idx == IF header_row_idx # NO_INDEX
                          THEN header_row_idx + 1 ELSE 0
        stop == Min2(data_start_idx + SAMPLE_ROWS, Len(data_matrix))
    IN  [n \in 1..Max2(stop - data_start_idx, 0) |->
            RowDictLoop(headers, data_matrix[data_start_idx + n], 1, <<>>)]

\* the rows below the header row only
EstimatedRecordsBelowHeader(row_count, header_row_idx) ==
    IF header_row_idx # NO_INDEX THEN row_count - (header_row_idx + 1)
    ELSE row_count

\* estimated_records = row_count - 1 if header_row_idx is not None
EstimatedRecords(row_count, header_row_idx) ==
    IF header_row_idx # NO_INDEX THEN row_count - 1 ELSE row_count

\* the TableCandidate _analyze_data_region returns when nothing raises
AnalyzeDataRegion(sh, region, table_id) ==
    LET row_count == region.end_row - region.start_row + 1
        col_count == region.end_col - region.start_col + 1
        data_matrix == DataMatrix(sh, region)
        header_row_idx == DetectHeaderRow(data_matrix)
        data_density == DataDensity(data_matrix, row_count, col_count)
        headers == Headers(data_matrix, header_row_idx, col_count)
    IN  [table_id |-> table_id,
         start_row |-> region.start_row, end_row |-> region.end_row,
         start_col |-> region.start_col, end_col |-> region.end_col,
         header_row |-> IF header_row_idx # NO_INDEX
                        THEN region.start_row + header_row_idx
                        ELSE NO_INDEX,
         quality_score |-> CalculateQualityScore(data_matrix, row_count,
                               col_count, data_density, header_row_idx),
         data_density |-> data_density,
         row_count |-> row_count, col_count |-> col_count,
         estimated_records |-> EstimatedRecords(row_count, header_row_idx),
         headers |-> headers,
         sample_data |-> SampleData(data_matrix, headers, header_row_idx)]

(***************************************************************************)
(* detect_tables: filter, sort, truncate                                   *)
(***************************************************************************)
\* "or" in place of the second "and"
PassesFilterEither(cand, minr, minc) ==
    cand # None /\ (cand.row_count >= minr \/ cand.col_count >= minc)

\* candidate and row_count >= min_rows and col_count >= min_cols
PassesFilter(cand, minr, minc) ==
    cand # None /\ cand.row_count >= minr /\ cand.col_count >= minc

\* insert where list.sort(key=quality_score, reverse=True) leaves the item:
\* after every item whose score is not smaller (the sort is stable)
RECURSIVE InsertByScore(_, _)
InsertByScore(sorted, cand) ==
    IF sorted = <<>> THEN <<cand>>
    ELSE IF RLt(Head(sorted).quality_score, cand.quality_score)
         THEN <<cand>> \o sorted
         ELSE <<Head(sorted)>> \o InsertByScore(Tail(sorted), cand)

RECURSIVE SortByScore(_)
SortByScore(cands) ==
    IF cands = <<>> THEN <<>>
    ELSE InsertByScore(SortByScore(SubSeq(cands, 1, Len(cands) - 1)),
                       cands[Len(cands)])

\* seq[:n + 1]
SliceToOneMore(seq, n) ==
    IF n + 1 >= 0 THEN SubSeq(seq, 1, Min2(n + 1, Len(seq)))
    ELSE SubSeq(seq, 1, Max2(Len(seq) + n + 1, 0))

\* seq[:n] of Python
SliceTo(seq, n) ==
    IF n >= 0 THEN SubSeq(seq, 1, Min2(n, Len(seq)))
    ELSE SubSeq(seq, 1, Max2(Len(seq) + n, 0))

(***************************************************************************)
(* State                                                                   *)
(***************************************************************************)
VARIABLES
    sheet,            \* the worksheet named "Sheet1" of workbook_data
    sheet_name,       \* argument of detect_tables
    min_rows,         \* argument of detect_tables
    min_cols,         \* argument of detect_tables
    max_tables,       \* argument of detect_tables
    pc,               \* position of the detect_tables call
    data_map,         \* _find_data_regions: keys of data_map that are True
    visited,          \* _find_data_regions: visited
    scan_pos,         \* _find_data_regions: (row, col) of the scan loops
    regions,          \* _find_data_regions: regions
    analyzed,         \* values _analyze_data_region has returned so far
    table_candidates, \* detect_tables: table_candidates
    result,           \* the list detect_tables returned
    outcome,          \* "running", "returned" or "raised"
    raised_in,        \* where detect_tables caught an exception
    region_raised,    \* 1-based ranks of the regions whose analysis raised
    max_read_row,     \* last row of the loops that call sheet.cell, so far
    max_read_col,     \* last column of the loops that call sheet.cell
    candidate,        \* a TableCandidate that is serialized
    as_dict,          \* candidate.to_dict()
    rebuilt,          \* the TableCandidate built from as_dict
    again,            \* rebuilt.to_dict()
    frames,           \* the local variables of concurrent detect_tables calls
    now,              \* datetime.now(), in minutes
    sessions,         \* SessionManager.sessions, the router's session_data
    timestamps,       \* SessionManager.timestamps, session_timestamps
    response,         \* what the call that has just ended answered
    file_data,        \* create_business_request_with_files: file_data
    upload_pc,        \* position of the business-request upload
    upload_results,   \* what upload_single_file has returned, per file
    uploaded_storage_paths, \* the paths the except clause removes
    storage,          \* the objects of the bucket "uploaded-files"
    business_requests, \* ids of the rows of table business_requests
    file_rows,        \* storage paths of the rows of table uploaded_files
    http_status       \* status of the upload's answer, 0 while it runs

vars == <<sheet, sheet_name, min_rows, min_cols, max_tables, pc, data_map,
          visited, scan_pos, regions, analyzed, table_candidates, result,
          outcome, raised_in, region_raised, max_read_row, max_read_col,
          candidate, as_dict, rebuilt, again, frames, now, sessions,
          timestamps, response, file_data, upload_pc, upload_results,
          uploaded_storage_paths, storage, business_requests, file_rows,
          http_status>>

\* the session store and the clock
store == <<now, sessions, timestamps, response>>

\* the business-request upload, its bucket and its tables
uploading == <<file_data, upload_pc, upload_results, uploaded_storage_paths, storage, business_requests, file_rows, http_status>>

\* the variables of the serialization, of the concurrent calls, of the
\* sessions and of the upload
elsewhere == <<candidate, as_dict, rebuilt, again, frames, store, uploading>>

inputs == <<sheet, sheet_name, min_rows, min_cols, max_tables>>

SheetNames == {"Sheet1"}

max_row == EffectiveMax(sheet.max_row)
max_col == EffectiveMax(sheet.max_column)

(***************************************************************************)
(* Inputs                                                                  *)
(***************************************************************************)
Text == StrV(<<"a", "b">>)
PresenceValues == {None, Text}

\* sheets whose stored cells are a rows x cols block at (r0, c0) and whose
\* dimension is that block's extent, or unknown (read-only, no dimension)
Sheets(r0, c0, rows, cols, values, dims) ==
    {[max_row |-> IF known THEN r0 + rows - 1 ELSE 0,
      max_column |-> IF known THEN c0 + cols - 1 ELSE 0,
      cells |-> f] :
        f \in [(r0..(r0 + rows - 1)) \X (c0..(c0 + cols - 1)) -> values],
        known \in dims}

\* a dict without keys
EmptyDict == [k \in {} |-> None]

\* what a call answered: its name, the session it named, the minutes that
\* session had been idle when the call began (NO_INDEX without a timestamp;
\* kept for the properties) and the value it returned
Answer(op, session_id, waited, returned) ==
    [op |-> op, session_id |-> session_id, waited |-> waited,
     result |-> returned]

\* no call has just ended
NoResponse == Answer("", "", NO_INDEX, None)

\* no session exists and no call was answered
NoSessions ==
    /\ now = 0
    /\ sessions = EmptyDict
    /\ timestamps = EmptyDict
    /\ response = NoResponse

\* no business request is being uploaded
NoUpload ==
    /\ file_data = {}
    /\ upload_pc = "idle"
    /\ upload_results = EmptyDict
    /\ uploaded_storage_paths = {}
    /\ storage = {}
    /\ business_requests = {}
    /\ file_rows = {}
    /\ http_status = 0

InitCall ==
    /\ NoSessions
    /\ NoUpload
    /\ pc = "load"
    /\ data_map = {}
    /\ visited = {}
    /\ scan_pos = <<0, 0>>
    /\ regions = <<>>
    /\ analyzed = <<>>
    /\ table_candidates = <<>>
    /\ result = <<>>
    /\ outcome = "running"
    /\ raised_in = "nowhere"
    /\ region_raised = {}
    /\ max_read_row = 0
    /\ max_read_col = 0
    /\ candidate = None
    /\ as_dict = None
    /\ rebuilt = None
    /\ again = None
    /\ frames = <<>>

Zero == IntV(0)
PaddedZero == StrV(<<" ", "0">>)
Blank == StrV(<<" ">>)
Amount == StrV(<<"1", ",", "5">>)
Date == StrV(<<"2", "0", "2", "4", "-", "1", "-", "2">>)
TypedValues == {None, Amount, Text}
DatedValues == {None, Amount, Text, Date}
BlankValues == {None, Blank, Zero, PaddedZero, Text}

\* the defaults of detect_tables
DefaultArgs ==
    /\ min_rows = 3
    /\ min_cols = 2
    /\ max_tables = 10

\* presence-only sheets of two and of three columns, default arguments
InitScan ==
    /\ sheet \in Sheets(1, 1, TallRows, 2, PresenceValues, {TRUE})
                  \cup Sheets(1, 1, WideRows, 3, PresenceValues, {TRUE})
    /\ sheet_name = "Sheet1"
    /\ DefaultArgs
    /\ InitCall

\* presence-only sheets whose block ends one row and one column beyond the
\* scan limits, with and without a stored dimension; the sheet name may be
\* one the workbook does not have
InitLimit ==
    /\ sheet \in Sheets(ROW_LIMIT - LimitRows + 2, COL_LIMIT, LimitRows, 2,
                         PresenceValues, BOOLEAN)
    /\ sheet_name \in {"Sheet1", "Missing"}
    /\ DefaultArgs
    /\ InitCall

\* two-column sheets of text and comma-separated numbers
InitTyped ==
    /\ sheet \in Sheets(1, 1, TypedRows, 2, TypedValues, {TRUE})
    /\ sheet_name = "Sheet1"
    /\ DefaultArgs
    /\ InitCall

\* one-column sheets of blanks, zeros and text; one-column tables are
\* accepted
InitBlank ==
    /\ sheet \in Sheets(1, 1, BlankRows, 1, BlankValues, {TRUE})
    /\ sheet_name = "Sheet1"
    /\ min_rows = 3
    /\ min_cols = 1
    /\ max_tables = 10
    /\ InitCall

\* one-column sheets of text, numbers and dates; one-column tables are
\* accepted
InitDated ==
    /\ sheet \in Sheets(1, 1, DatedRows, 1, DatedValues, {TRUE})
    /\ sheet_name = "Sheet1"
    /\ min_rows = 3
    /\ min_cols = 1
    /\ max_tables = 10
    /\ InitCall

\* <<min_rows, min_cols, max_tables>> of the calls whose arguments vary
RankArgs ==
    {<<3, 2, 10>>, <<3, 1, 10>>, <<3, 1, 1>>, <<3, 1, 0>>, <<4, 1, 1>>,
     <<3, 1, -1>>}

\* presence-only sheets of two columns and of one column, varying arguments
InitRank ==
    /\ sheet \in Sheets(1, 1, RankRows, 2, PresenceValues, {TRUE})
                  \cup Sheets(1, 1, ColumnRows, 1, PresenceValues, {TRUE})
    /\ sheet_name = "Sheet1"
    /\ \E a \in RankArgs :
          /\ min_rows = a[1]
          /\ min_cols = a[2]
          /\ max_tables = a[3]
    /\ InitCall

Init == InitScan \/ InitLimit \/ InitTyped \/ InitBlank \/ InitDated

(***************************************************************************)
(* detect_tables, step by step                                             *)
(***************************************************************************)
\* load_workbook and workbook[sheet_name]; KeyError is caught: return []
LoadWorkbook ==
    /\ pc = "load"
    /\ IF sheet_name \in SheetNames
       THEN /\ pc' = "build_map"
            /\ UNCHANGED <<outcome, raised_in>>
       ELSE /\ pc' = "done"
            /\ outcome' = "returned"
            /\ raised_in' = "load"
    /\ UNCHANGED <<inputs, elsewhere, data_map, visited, scan_pos, regions, analyzed,
                   table_candidates, result, region_raised, max_read_row,
                   max_read_col>>

\* _find_data_regions, first loops: the occupancy map
BuildMap ==
    /\ pc = "build_map"
    /\ data_map' = BuildDataMap(sheet, max_row, max_col)
    /\ max_read_row' = Max2(max_read_row, LastScanRow(max_row))
    /\ max_read_col' = Max2(max_read_col, LastScanCol(max_col))
    /\ pc' = "scan"
    /\ UNCHANGED <<inputs, elsewhere, visited, scan_pos, regions, analyzed,
                   table_candidates, result, outcome, raised_in,
                   region_raised>>

\* a cell read raises while the map is built: caught by detect_tables
BuildMapRaises ==
    /\ pc = "build_map"
    /\ max_read_row' = Max2(max_read_row, LastScanRow(max_row))
    /\ max_read_col' = Max2(max_read_col, LastScanCol(max_col))
    /\ pc' = "done"
    /\ outcome' = "returned"
    /\ raised_in' = "scan"
    /\ UNCHANGED <<inputs, elsewhere, data_map, visited, scan_pos, regions, analyzed,
                   table_candidates, result, region_raised>>

\* _find_data_regions, second loops: the next unvisited present cell is
\* expanded, its box marked visited and recorded when it has 3 rows
ExpandRegion ==
    /\ pc = "scan"
    /\ Anchors(data_map, visited, scan_pos) # {}
    /\ LET a == NextAnchor(data_map, visited, scan_pos)
           region == ExpandDataRegion(data_map, a[1], a[2], max_row, max_col)
       IN  /\ visited' = visited \cup Box(region)
           /\ regions' = IF RecordsRegion(region)
                         THEN Append(regions, region) ELSE regions
           /\ scan_pos' = a
    /\ UNCHANGED <<inputs, elsewhere, pc, data_map, analyzed, table_candidates, result,
                   outcome, raised_in, region_raised, max_read_row,
                   max_read_col>>

\* the scan loops end: _find_data_regions returns regions
ScanEnd ==
    /\ pc = "scan"
    /\ Anchors(data_map, visited, scan_pos) = {}
    /\ pc' = "analyze"
    /\ UNCHANGED <<inputs, elsewhere, data_map, visited, scan_pos, regions, analyzed,
                   table_candidates, result, outcome, raised_in,
                   region_raised, max_read_row, max_read_col>>

\* the table_id counts the candidates accepted so far, not the regions
AnalyzeRegionNumbersAccepted ==
    /\ pc = "analyze"
    /\ Len(analyzed) < Len(regions)
    /\ LET region_id == Len(analyzed)
           region == regions[region_id + 1]
           cand == AnalyzeDataRegion(sheet, region,
                                     Len(table_candidates) + 1)
       IN  /\ analyzed' = Append(analyzed, cand)
           /\ table_candidates' =
                IF PassesFilter(cand, min_rows, min_cols)
                THEN Append(table_candidates, cand) ELSE table_candidates
           /\ max_read_row' = Max2(max_read_row, region.end_row)
           /\ max_read_col' = Max2(max_read_col, region.end_col)
    /\ UNCHANGED <<inputs, elsewhere, pc, data_map, visited, scan_pos, regions, result,
                   outcome, raised_in, region_raised>>

\* one iteration of the loop over data_regions
AnalyzeRegion ==
    /\ pc = "analyze"
    /\ Len(analyzed) < Len(regions)
    /\ LET region_id == Len(analyzed)
           region == regions[region_id + 1]
           cand == AnalyzeDataRegion(sheet, region, region_id + 1)
       IN  /\ analyzed' = Append(analyzed, cand)
           /\ table_candidates' =
                IF PassesFilter(cand, min_rows, min_cols)
                THEN Append(table_candidates, cand) ELSE table_candidates
           /\ max_read_row' = Max2(max_read_row, region.end_row)
           /\ max_read_col' = Max2(max_read_col, region.end_col)
    /\ UNCHANGED <<inputs, elsewhere, pc, data_map, visited, scan_pos, regions, result,
                   outcome, raised_in, region_raised>>

\* the exception of one region reaches detect_tables, which returns []
AnalyzeRegionRaisesAborts ==
    /\ pc = "analyze"
    /\ Len(analyzed) < Len(regions)
    /\ LET region == regions[Len(analyzed) + 1]
       IN  /\ max_read_row' = Max2(max_read_row, region.end_row)
           /\ max_read_col' = Max2(max_read_col, region.end_col)
    /\ region_raised' = region_raised \cup {Len(analyzed) + 1}
    /\ pc' = "done"
    /\ outcome' = "returned"
    /\ UNCHANGED <<inputs, elsewhere, data_map, visited, scan_pos, regions, analyzed,
                   table_candidates, result, raised_in>>

\* one iteration in which a cell read raises: _analyze_data_region catches
\* it and returns None, the region is skipped
AnalyzeRegionRaises ==
    /\ pc = "analyze"
    /\ Len(analyzed) < Len(regions)
    /\ LET region == regions[Len(analyzed) + 1]
       IN  /\ max_read_row' = Max2(max_read_row, region.end_row)
           /\ max_read_col' = Max2(max_read_col, region.end_col)
    /\ analyzed' = Append(analyzed, None)
    /\ region_raised' = region_raised \cup {Len(analyzed) + 1}
    /\ UNCHANGED <<inputs, elsewhere, pc, data_map, visited, scan_pos, regions,
                   table_candidates, result, outcome, raised_in>>

\* sort by quality_score descending, return table_candidates[:max_tables]
SortAndReturn ==
    /\ pc = "analyze"
    /\ Len(analyzed) = Len(regions)
    /\ table_candidates' = SortByScore(table_candidates)
    /\ result' = SliceTo(table_candidates', max_tables)
    /\ pc' = "done"
    /\ outcome' = "returned"
    /\ UNCHANGED <<inputs, elsewhere, data_map, visited, scan_pos, regions, analyzed,
                   raised_in, region_raised, max_read_row, max_read_col>>

Next ==
    \/ LoadWorkbook
    \/ BuildMap
    \/ BuildMapRaises
    \/ ExpandRegion
    \/ ScanEnd
    \/ AnalyzeRegion
    \/ AnalyzeRegionRaises
    \/ SortAndReturn

Spec == Init /\ [][Next]_vars

SpecRank == InitRank /\ [][Next]_vars

(***************************************************************************)
(* TableCandidate.to_dict and the way back                                 *)
(***************************************************************************)
\* round(x, 3) for x >= 0 by cutting the digits after the third one
Round3Down(x) == Rat((x[1] * 1000) \div x[2], 1000)

\* round(x, 3) for x >= 0: the nearest multiple of 1/1000, a tie going to
\* the even one
Round3(x) ==
    LET q == (x[1] * 1000) \div x[2]
        r == (x[1] * 1000) % x[2]
    IN  Rat(IF 2 * r > x[2] \/ (2 * r = x[2] /\ q % 2 = 1) THEN q + 1 ELSE q,
            1000)

Letters == <<"A", "B", "C", "D", "E", "F", "G", "H", "I", "J", "K", "L", "M", "N", "O", "P", "Q", "R", "S", "T", "U", "V", "W", "X", "Y", "Z">>

\* openpyxl.utils.get_column_letter
RECURSIVE ColumnLetter(_)
ColumnLetter(col) ==
    IF col <= 26 THEN <<Letters[col]>>
    ELSE ColumnLetter((col - 1) \div 26) \o <<Letters[((col - 1) % 26) + 1]>>

\* f"{letter(start_col)}{start_row}:{letter(end_col)}{end_row}"
ExcelRange(start_row, end_row, start_col, end_col) ==
    ColumnLetter(start_col) \o NatText(start_row) \o <<":">>
        \o ColumnLetter(end_col) \o NatText(end_row)

\* TableCandidate.to_dict
ToDict(cand) ==
    [table_id |-> cand.table_id,
     sheet_name |-> cand.sheet_name,
     range |-> [start_row |-> cand.start_row, end_row |-> cand.end_row,
                start_col |-> cand.start_col, end_col |-> cand.end_col,
                excel_range |-> ExcelRange(cand.start_row, cand.end_row,
                                           cand.start_col, cand.end_col)],
     header_row |-> cand.header_row,
     quality_score |-> Round3(cand.quality_score),
     data_density |-> Round3(cand.data_density),
     dimensions |-> [row_count |-> cand.row_count,
                     col_count |-> cand.col_count,
                     estimated_records |-> cand.estimated_records],
     headers |-> cand.headers,
     sample_data |-> cand.sample_data,
     metadata |-> cand.metadata]

\* TableCandidate.__init__: every argument is kept as it is; the lists and
\* the dict are never None here, so "headers or []" and its like keep them
TableCandidate(table_id, name, box, header_row, quality_score, data_density, dims, headers, sample_data, metadata) ==
    [table_id |-> table_id, sheet_name |-> name,
     start_row |-> box.start_row, end_row |-> box.end_row,
     start_col |-> box.start_col, end_col |-> box.end_col,
     header_row |-> header_row,
     quality_score |-> quality_score, data_density |-> data_density,
     row_count |-> dims.row_count, col_count |-> dims.col_count,
     estimated_records |-> dims.estimated_records,
     headers |-> headers, sample_data |-> sample_data,
     metadata |-> metadata]

\* the way back: the constructor called with the entries of the dict
FromDict(d) ==
    TableCandidate(d.table_id, d.sheet_name, d.range, d.header_row,
                   d.quality_score, d.data_density, d.dimensions, d.headers,
                   d.sample_data, d.metadata)

\* the scores n / 2^ScoreBits of [0, 1]: each one is a double
RECURSIVE Pow2(_)
Pow2(n) == IF n = 0 THEN 1 ELSE 2 * Pow2(n - 1)

Scores == {Rat(n, Pow2(ScoreBits)) : n \in 0..Pow2(ScoreBits)}

\* the first column of a serialized candidate: the last one-letter column
\* and the first two-letter one
FirstColumns == {26, 27}

HeaderLists == {<<Text.v, Placeholder(1)>>, <<Placeholder(0), Text.v>>}

\* no detect_tables call is under way
DetectIdle ==
    /\ sheet_name = "Sheet1"
    /\ min_rows = 3
    /\ min_cols = 2
    /\ max_tables = 10
    /\ pc = "idle"
    /\ data_map = {}
    /\ visited = {}
    /\ scan_pos = <<0, 0>>
    /\ regions = <<>>
    /\ analyzed = <<>>
    /\ table_candidates = <<>>
    /\ result = <<>>
    /\ outcome = "running"
    /\ raised_in = "nowhere"
    /\ region_raised = {}
    /\ max_read_row = 0
    /\ max_read_col = 0

\* a candidate of 4 rows and 2 columns as _analyze_data_region builds it
InitDict ==
    /\ sheet = None
    /\ DetectIdle
    /\ NoSessions
    /\ NoUpload
    /\ \E start_col \in FirstColumns, header_row \in {NO_INDEX, 1, 3},
          quality_score \in Scores, data_density \in Scores,
          headers \in HeaderLists :
          candidate = TableCandidate(
              <<"t", "a", "b", "l", "e", "_", "1">>, <<"S", "1">>,
              [start_row |-> 1, end_row |-> 4, start_col |-> start_col,
               end_col |-> start_col + 1],
              header_row, quality_score, data_density,
              [row_count |-> 4, col_count |-> 2,
               estimated_records |-> IF header_row = NO_INDEX THEN 4 ELSE 3],
              headers,
              <<<<<<headers[1], <<>>>>, <<headers[2], Text.v>>>>>>,
              <<<<"detection_method", "statistical">>, <<"data_cells", 4>>,
                <<"total_cells", 8>>>>)
    /\ as_dict = None
    /\ rebuilt = None
    /\ again = None
    /\ frames = <<>>

detect == <<data_map, visited, scan_pos, regions, analyzed, table_candidates, result, outcome, raised_in, region_raised, max_read_row, max_read_col, pc>>

\* candidate.to_dict()
Serialize ==
    /\ candidate # None
    /\ as_dict = None
    /\ as_dict' = ToDict(candidate)
    /\ UNCHANGED <<inputs, detect, store, uploading, candidate, rebuilt, again, frames>>

\* a candidate is built from the dict
Rebuild ==
    /\ as_dict # None
    /\ rebuilt = None
    /\ rebuilt' = FromDict(as_dict)
    /\ UNCHANGED <<inputs, detect, store, uploading, candidate, as_dict, again, frames>>

\* rebuilt.to_dict()
SerializeAgain ==
    /\ rebuilt # None
    /\ again = None
    /\ again' = ToDict(rebuilt)
    /\ UNCHANGED <<inputs, detect, store, uploading, candidate, as_dict, rebuilt, frames>>

NextDict == Serialize \/ Rebuild \/ SerializeAgain

SpecDict == InitDict /\ [][NextDict]_vars

(***************************************************************************)
(* Two detect_tables calls on one detector instance                        *)
(***************************************************************************)
Calls == {1, 2}

\* the visited set as an attribute of the shared detector instance
VisitedOfInstance(i) == UNION {frames[j].visited : j \in Calls}

\* visited = set(): a local variable of the call's _find_data_regions
VisitedSeenBy(i) == frames[i].visited

\* the locals of a call that has not started
NewFrame(sh) ==
    [sheet |-> sh, min_rows |-> 3, min_cols |-> 1, max_tables |-> 10,
     pc |-> "load", data_map |-> {}, visited |-> {}, scan_pos |-> <<0, 0>>,
     regions |-> <<>>, analyzed |-> <<>>, table_candidates |-> <<>>,
     result |-> <<>>]

\* each call is given a one-column presence-only sheet of its own workbook
InitPair ==
    /\ sheet = None
    /\ DetectIdle
    /\ NoSessions
    /\ NoUpload
    /\ candidate = None
    /\ as_dict = None
    /\ rebuilt = None
    /\ again = None
    /\ \E sheets \in [Calls -> Sheets(1, 1, PairRows, 1, PresenceValues,
                                      {TRUE})] :
          frames = [i \in Calls |-> NewFrame(sheets[i])]

serialized == <<candidate, as_dict, rebuilt, again>>

FrameMaxRow(i) == EffectiveMax(frames[i].sheet.max_row)
FrameMaxCol(i) == EffectiveMax(frames[i].sheet.max_column)

\* sheet = workbook[sheet_name]
PairLoad(i) ==
    /\ frames[i].pc = "load"
    /\ frames' = [frames EXCEPT ![i].pc = "build_map"]
    /\ UNCHANGED <<inputs, detect, store, uploading, serialized>>

\* _find_data_regions, first loops
PairBuildMap(i) ==
    /\ frames[i].pc = "build_map"
    /\ frames' = [frames EXCEPT
                    ![i].data_map = BuildDataMap(frames[i].sheet,
                                        FrameMaxRow(i), FrameMaxCol(i)),
                    ![i].pc = "scan"]
    /\ UNCHANGED <<inputs, detect, store, uploading, serialized>>

\* _find_data_regions, second loops: one anchor
PairExpand(i) ==
    /\ frames[i].pc = "scan"
    /\ Anchors(frames[i].data_map, VisitedSeenBy(i), frames[i].scan_pos) # {}
    /\ LET a == NextAnchor(frames[i].data_map, VisitedSeenBy(i),
                           frames[i].scan_pos)
           region == ExpandDataRegion(frames[i].data_map, a[1], a[2],
                                      FrameMaxRow(i), FrameMaxCol(i))
       IN  frames' = [frames EXCEPT
                        ![i].visited = frames[i].visited \cup Box(region),
                        ![i].regions = IF RecordsRegion(region)
                                       THEN Append(frames[i].regions, region)
                                       ELSE frames[i].regions,
                        ![i].scan_pos = a]
    /\ UNCHANGED <<inputs, detect, store, uploading, serialized>>

\* _find_data_regions returns
PairScanEnd(i) ==
    /\ frames[i].pc = "scan"
    /\ Anchors(frames[i].data_map, VisitedSeenBy(i), frames[i].scan_pos) = {}
    /\ frames' = [frames EXCEPT ![i].pc = "analyze"]
    /\ UNCHANGED <<inputs, detect, store, uploading, serialized>>

\* one round of the loop over data_regions
PairAnalyze(i) ==
    /\ frames[i].pc = "analyze"
    /\ Len(frames[i].analyzed) < Len(frames[i].regions)
    /\ LET region_id == Len(frames[i].analyzed)
           cand == AnalyzeDataRegion(frames[i].sheet,
                       frames[i].regions[region_id + 1], region_id + 1)
       IN  frames' = [frames EXCEPT
                        ![i].analyzed = Append(frames[i].analyzed, cand),
                        ![i].table_candidates =
                            IF PassesFilter(cand, frames[i].min_rows,
                                            frames[i].min_cols)
                            THEN Append(frames[i].table_candidates, cand)
                            ELSE frames[i].table_candidates]
    /\ UNCHANGED <<inputs, detect, store, uploading, serialized>>

\* sort, slice and return
PairSortAndReturn(i) ==
    /\ frames[i].pc = "analyze"
    /\ Len(frames[i].analyzed) = Len(frames[i].regions)
    /\ LET sorted == SortByScore(frames[i].table_candidates)
       IN  frames' = [frames EXCEPT
                        ![i].table_candidates = sorted,
                        ![i].result = SliceTo(sorted, frames[i].max_tables),
                        ![i].pc = "done"]
    /\ UNCHANGED <<inputs, detect, store, uploading, serialized>>

NextPair ==
    \E i \in Calls :
        \/ PairLoad(i)
        \/ PairBuildMap(i)
        \/ PairExpand(i)
        \/ PairScanEnd(i)
        \/ PairAnalyze(i)
        \/ PairSortAndReturn(i)

SpecPair == InitPair /\ [][NextPair]_vars

(***************************************************************************)
(* Properties                                                              *)
(***************************************************************************)
\* a cell is present iff it is non-null and its trimmed text is neither
\* empty nor "0"
Present(val) ==
    val # None /\ Strip(PyStr(val)) \notin {<<>>, <<"0">>}

PresentAt(row, col) == Present(CellValue(sheet, row, col))

Ranks(seq) == 1..Len(seq)

\* detect_tables went through without a whole-sheet failure
Completed == pc = "done" /\ raised_in = "nowhere"

\* C1: the recorded regions are pairwise non-overlapping: no cell lies in
\* the bounding box of two different regions
C1_RegionsDisjoint ==
    \A i, j \in Ranks(regions) :
        i < j => Box(regions[i]) \cap Box(regions[j]) = {}

\* C2: a grid with zero present cells yields no region and no candidate
ZeroPresent == \A p \in DOMAIN sheet.cells : ~Present(sheet.cells[p])

C2_NoPresentNoRegion ==
    ZeroPresent =>
        /\ regions = <<>>
        /\ analyzed = <<>>
        /\ table_candidates = <<>>
        /\ result = <<>>

C2_Witness ==
    /\ ZeroPresent
    /\ Completed
    /\ \E p \in DOMAIN sheet.cells : sheet.cells[p] = Zero
    /\ \E p \in DOMAIN sheet.cells : sheet.cells[p] = Blank
    /\ result = <<>>

\* C3: every recorded region has end_row >= start_row, end_col >= start_col,
\* at least 3 rows, a present top-left cell and so a cell count > 0
C3_RegionsWellFormed ==
    \A i \in Ranks(regions) :
        LET r == regions[i]
        IN  /\ r.end_row >= r.start_row
            /\ r.end_col >= r.start_col
            /\ r.end_row - r.start_row + 1 >= 3
            /\ PresentAt(r.start_row, r.start_col)
            /\ Cardinality(Box(r)) > 0

C3_Witness ==
    /\ Completed
    /\ \E i \in Ranks(regions) :
          /\ regions[i].end_row - regions[i].start_row + 1 = 3
          /\ regions[i].start_row > 1
          /\ ~PresentAt(regions[i].start_row + 1, regions[i].start_col)

\* C4: no cell with row > 200 or column > 50 is read, and every recorded
\* region ends within row 200 and column 50
C4_ReadsWithinLimits ==
    /\ max_read_row <= 200
    /\ max_read_col <= 50
    /\ \A i \in Ranks(regions) :
          regions[i].end_row <= 200 /\ regions[i].end_col <= 50

C4_Witness ==
    /\ Completed
    /\ sheet.max_row > 200
    /\ sheet.max_column > 50
    /\ PresentAt(201, 50)
    /\ PresentAt(200, 51)
    /\ \E i \in Ranks(regions) :
          /\ regions[i].end_row = 200
          /\ regions[i].end_col = 50
          /\ i \in Ranks(analyzed)
          /\ analyzed[i] # None
    /\ max_read_row = 200
    /\ max_read_col = 50

\* C5: every candidate has quality_score and data_density in [0, 1]
InUnitInterval(x) == RLe(RZero, x) /\ RLe(x, ROne)

C5_ScoresInUnitInterval ==
    \A k \in Ranks(analyzed) :
        analyzed[k] # None =>
            /\ InUnitInterval(analyzed[k].quality_score)
            /\ InUnitInterval(analyzed[k].data_density)

C5_Witness ==
    /\ Completed
    /\ \E k \in Ranks(analyzed) :
          /\ analyzed[k] # None
          /\ analyzed[k].data_density = ROne
    /\ \E k \in Ranks(analyzed) :
          /\ analyzed[k] # None
          /\ analyzed[k].col_count >= 2
          /\ RLt(analyzed[k].data_density, ROne)
          /\ RLt(RZero, analyzed[k].quality_score)

\* C6: no returned candidate is below min_rows or min_cols, and every
\* analyzed candidate that meets both is in the list before truncation
MeetsMinimums(cand) ==
    cand.row_count >= min_rows /\ cand.col_count >= min_cols

C6_SizeFilter ==
    /\ \A i \in Ranks(result) : MeetsMinimums(result[i])
    /\ \A i \in Ranks(table_candidates) : MeetsMinimums(table_candidates[i])
    /\ \A k \in Ranks(analyzed) :
          (analyzed[k] # None /\ MeetsMinimums(analyzed[k])) =>
              \E i \in Ranks(table_candidates) :
                  table_candidates[i] = analyzed[k]

C6_Witness ==
    /\ Completed
    /\ \E k \in Ranks(analyzed) :
          /\ analyzed[k] # None
          /\ analyzed[k].row_count >= min_rows
          /\ analyzed[k].col_count < min_cols
          /\ \E i \in Ranks(result) :
                /\ RLt(result[i].quality_score, analyzed[k].quality_score)
                /\ result[i].table_id # k

\* C7: for max_tables >= 0 the returned list is sorted by quality_score
\* descending, has min(max_tables, number passing the filter) entries, the
\* top-scoring ones, and equal scores keep their discovery order
Passing ==
    {k \in Ranks(analyzed) : analyzed[k] # None /\ MeetsMinimums(analyzed[k])}

C7_SortedTopN ==
    (Completed /\ max_tables >= 0) =>
        /\ Len(result) = Min2(max_tables, Cardinality(Passing))
        /\ \A i \in Ranks(result) :
              \E k \in Passing : result[i] = analyzed[k]
        /\ \A i, j \in Ranks(result) :
              i < j =>
                /\ RLe(result[j].quality_score, result[i].quality_score)
                /\ result[j].quality_score = result[i].quality_score
                      => result[i].table_id < result[j].table_id
        /\ \A k \in Passing :
              (\A i \in Ranks(result) : result[i] # analyzed[k]) =>
                  \A i \in Ranks(result) :
                      RLe(analyzed[k].quality_score, result[i].quality_score)

C7_Witness ==
    /\ Completed
    /\ max_tables = 1
    /\ Cardinality(Passing) = 2
    /\ Len(result) = 1
    /\ result[1].table_id = 2

\* C8: the header row is the earliest of the first 3 rows of the region
\* that attains the highest score 0.7*string_ratio + 0.3*fill_ratio among
\* the rows with a non-empty cell and string_ratio >= 0.5, none if no such
\* row exists; an all-numeric row is never the header, a first row of
\* non-empty non-numeric cells always is
EligibleRows(matrix) ==
    {i \in 1..Min2(3, Len(matrix)) :
        /\ NonEmptyCount(matrix[i]) > 0
        /\ 2 * StringCount(matrix[i]) >= NonEmptyCount(matrix[i])}

\* 0.7 * strings / non_empty + 0.3 * non_empty / columns, times 10
\* non_empty columns; compared across rows by cross-multiplication
ScoreNum(row) ==
    7 * StringCount(row) * Len(row)
        + 3 * NonEmptyCount(row) * NonEmptyCount(row)
ScoreDen(row) == 10 * NonEmptyCount(row) * Len(row)
ScoreLe(r1, r2) == ScoreNum(r1) * ScoreDen(r2) <= ScoreNum(r2) * ScoreDen(r1)

BestRows(matrix) ==
    {i \in EligibleRows(matrix) :
        \A j \in EligibleRows(matrix) : ScoreLe(matrix[j], matrix[i])}

ExpectedHeaderRow(region) ==
    LET matrix == DataMatrix(sheet, region)
    IN  IF EligibleRows(matrix) = {} THEN NO_INDEX
        ELSE region.start_row + SetMin(BestRows(matrix)) - 1

AllNumericRow(row) ==
    NonEmptyCount(row) > 0 /\ StringCount(row) = 0
AllStringRow(row) == StringCount(row) = Len(row)

C8_HeaderRow ==
    \A k \in Ranks(analyzed) :
        analyzed[k] # None =>
            LET matrix == DataMatrix(sheet, regions[k])
                header_row == analyzed[k].header_row
            IN  /\ header_row = ExpectedHeaderRow(regions[k])
                /\ header_row # NO_INDEX =>
                      /\ header_row - regions[k].start_row + 1 \in 1..3
                      /\ ~AllNumericRow(
                            matrix[header_row - regions[k].start_row + 1])
                /\ AllStringRow(matrix[1]) =>
                      header_row = regions[k].start_row

C8_Witness ==
    /\ Completed
    /\ \E k \in Ranks(analyzed) :
          /\ analyzed[k] # None
          /\ analyzed[k].header_row = regions[k].start_row + 1
          /\ Cardinality(EligibleRows(DataMatrix(sheet, regions[k]))) >= 2
          /\ \E i \in 1..3 : AllNumericRow(DataMatrix(sheet, regions[k])[i])

\* C9: region analysis yields no candidate for a region iff its analysis
\* raised; the failure drops only that region: all regions are analyzed
\* and the candidates of the others that pass the filter are returned
C9_FailureIsLocal ==
    /\ \A k \in Ranks(analyzed) :
          analyzed[k] = None <=> k \in region_raised
    /\ (pc = "done" /\ raised_in \notin {"load", "scan"}) =>
          /\ Len(analyzed) = Len(regions)
          /\ \A k \in Passing :
                \E i \in Ranks(table_candidates) :
                    table_candidates[i] = analyzed[k]
          /\ max_tables >= Cardinality(Passing) =>
                \A k \in Passing :
                    \E i \in Ranks(result) : result[i] = analyzed[k]

C9_Witness ==
    /\ Completed
    /\ 1 \in region_raised
    /\ Len(regions) = 2
    /\ Len(result) = 1
    /\ result[1].table_id = 2
    /\ RLt(result[1].quality_score, Rat(7, 10))

\* C10: an unreadable worksheet (the sheet name is not in the workbook)
\* makes detect_tables fail hard instead of returning a list
C10_UnreadableSheetRaises ==
    (pc = "done" /\ sheet_name \notin SheetNames) => outcome = "raised"

\* C11: a candidate has one label per column, in column order: the text of
\* the header row's cell, or the synthesized label of the column's 1-indexed
\* position in the region when that cell is null or no header row was found
ExpectedLabel(cand, i) ==
    LET cell == CellValue(sheet, cand.header_row, cand.start_col + i - 1)
    IN  IF cand.header_row # NO_INDEX /\ cell # None THEN PyStr(cell)
        ELSE <<COLUMN_MARK>> \o NatText(i)

C11_HeaderLabels ==
    \A k \in Ranks(analyzed) :
        analyzed[k] # None =>
            /\ Len(analyzed[k].headers) = analyzed[k].col_count
            /\ \A i \in 1..analyzed[k].col_count :
                  analyzed[k].headers[i] = ExpectedLabel(analyzed[k], i)

C11_Witness ==
    /\ Completed
    /\ \E k \in Ranks(analyzed) :
          /\ analyzed[k] # None
          /\ analyzed[k].header_row # NO_INDEX
          /\ analyzed[k].start_col > 1
          /\ analyzed[k].col_count >= 2
          /\ analyzed[k].headers[1] = Text.v
          /\ analyzed[k].headers[2] = <<COLUMN_MARK, "2">>

\* C12: a candidate's row_count and col_count are the sides of its region,
\* estimated_records is row_count - 1 with a header row and row_count
\* without, and a header row is one of the region's first three rows
C12_Dimensions ==
    \A k \in Ranks(analyzed) :
        analyzed[k] # None =>
            LET cand == analyzed[k]
            IN  /\ cand.start_row = regions[k].start_row
                /\ cand.end_row = regions[k].end_row
                /\ cand.start_col = regions[k].start_col
                /\ cand.end_col = regions[k].end_col
                /\ cand.row_count = cand.end_row - cand.start_row + 1
                /\ cand.col_count = cand.end_col - cand.start_col + 1
                /\ cand.header_row # NO_INDEX =>
                      /\ cand.estimated_records = cand.row_count - 1
                      /\ cand.start_row <= cand.header_row
                      /\ cand.header_row <= cand.start_row + 2
                /\ cand.header_row = NO_INDEX =>
                      cand.estimated_records = cand.row_count

C12_Witness ==
    /\ Completed
    /\ \E k \in Ranks(analyzed) :
          /\ analyzed[k] # None
          /\ analyzed[k].header_row = analyzed[k].start_row + 2
          /\ analyzed[k].row_count >= 4
          /\ analyzed[k].estimated_records = analyzed[k].row_count - 1

\* C13: sample_data holds the first min(3, n) of the n region rows below the
\* header row (of all region rows without a header), in order, and each entry
\* maps every column's header label to that column's cell as text, the empty
\* text for a null cell
DataStartRow(cand) ==
    IF cand.header_row # NO_INDEX THEN cand.header_row + 1 ELSE cand.start_row

CellText(val) == IF val # None THEN PyStr(val) ELSE <<>>

Holds(row_dict, key, value) ==
    \E n \in 1..Len(row_dict) : row_dict[n] = <<key, value>>

C13_SampleData ==
    \A k \in Ranks(analyzed) :
        analyzed[k] # None =>
            LET cand == analyzed[k]
                first == DataStartRow(cand)
            IN  /\ Len(cand.sample_data)
                      = Min2(SAMPLE_ROWS, cand.end_row - first + 1)
                /\ \A n \in 1..Len(cand.sample_data) :
                      \A j \in 1..cand.col_count :
                          Holds(cand.sample_data[n], cand.headers[j],
                                CellText(CellValue(sheet, first + n - 1,
                                             cand.start_col + j - 1)))

\* C14: quality_score is min(1, density term + size term + header term +
\* consistency term) with the consistency term between 0 and 0.2; a fully
\* filled region whose first row is its header and whose data cells are all
\* numeric, in at least two data rows, gets 0.3 + size term + 0.2 + 0.2
DensityTerm(cand) == RMin(RMul(Rat(3, 1), cand.data_density), Rat(3, 10))

SizeTerm(cand) == RMin(Rat(cand.row_count * cand.col_count, 100), Rat(3, 10))

HeaderTerm(cand) == IF cand.header_row # NO_INDEX THEN Rat(2, 10) ELSE RZero

KnownTerms(cand) == RAdd(RAdd(DensityTerm(cand), SizeTerm(cand)), HeaderTerm(cand))

CleanNumericTable(cand) ==
    /\ cand.header_row = cand.start_row
    /\ cand.row_count >= 3
    /\ \A col \in cand.start_col..cand.end_col :
          /\ IsStringCell(CellValue(sheet, cand.start_row, col))
          /\ \A row \in (cand.start_row + 1)..cand.end_row :
                /\ NonEmpty(CellValue(sheet, row, col))
                /\ IsNumeric(CellValue(sheet, row, col))

C14_ScoreFormula ==
    \A k \in Ranks(analyzed) :
        analyzed[k] # None =>
            LET cand == analyzed[k]
            IN  /\ RLe(RMin(ROne, KnownTerms(cand)), cand.quality_score)
                /\ RLe(cand.quality_score,
                       RMin(ROne, RAdd(KnownTerms(cand), Rat(2, 10))))
                /\ CleanNumericTable(cand) =>
                      /\ DensityTerm(cand) = Rat(3, 10)
                      /\ HeaderTerm(cand) = Rat(2, 10)
                      /\ cand.quality_score
                            = RMin(ROne, RAdd(KnownTerms(cand), Rat(2, 10)))

C14_Witness ==
    /\ Completed
    /\ \E k \in Ranks(analyzed) :
          /\ analyzed[k] # None
          /\ CleanNumericTable(analyzed[k])
          /\ analyzed[k].col_count >= 2
          /\ analyzed[k].quality_score = Rat(76, 100)

\* C15: the consistency term is 0.2 times the average, over the columns with
\* at least two non-empty values in the data rows, of 1.0 when the column's
\* numeric or date-like share is at least 0.8, 0.6 when one of them is at
\* least 0.6 and 0.3 otherwise, a numeric value never counting as date-like;
\* it is 0 when no column has two such values
DataValues(cand, col) ==
    {row \in DataStartRow(cand)..cand.end_row :
        NonEmpty(CellValue(sheet, row, col))}

StrippedText(row, col) == Strip(PyStr(CellValue(sheet, row, col)))

NumericValues(cand, col) ==
    {row \in DataValues(cand, col) :
        ParsesAsFloat(RemoveCommas(StrippedText(row, col)))}

DateValues(cand, col) ==
    {row \in DataValues(cand, col) \ NumericValues(cand, col) :
        DateLike(StrippedText(row, col))}

Share(part, whole, tenths) ==
    10 * Cardinality(part) >= tenths * Cardinality(whole)

\* the per-column value, in tenths
Level(cand, col) ==
    LET all == DataValues(cand, col)
        num == NumericValues(cand, col)
        dat == DateValues(cand, col)
    IN  IF Share(num, all, 8) \/ Share(dat, all, 8) THEN 10
        ELSE IF Share(num, all, 6) \/ Share(dat, all, 6) THEN 6
        ELSE 3

Qualifying(cand) ==
    {col \in cand.start_col..cand.end_col :
        Cardinality(DataValues(cand, col)) >= 2}

LevelSum(cand) ==
    LET at(level) == Cardinality({col \in Qualifying(cand) :
                                     Level(cand, col) = level})
    IN  10 * at(10) + 6 * at(6) + 3 * at(3)

ExpectedConsistency(cand) ==
    IF Qualifying(cand) = {} THEN RZero
    ELSE Rat(2 * LevelSum(cand), 100 * Cardinality(Qualifying(cand)))

C15_ConsistencyTerm ==
    \A k \in Ranks(analyzed) :
        analyzed[k] # None =>
            analyzed[k].quality_score
                = RMin(ROne, RAdd(KnownTerms(analyzed[k]),
                                  ExpectedConsistency(analyzed[k])))

\* one column at the 0.6 level by its dates, after a header row
C15_Witness ==
    /\ Completed
    /\ \E k \in Ranks(analyzed) :
          /\ analyzed[k] # None
          /\ analyzed[k].header_row # NO_INDEX
          /\ Qualifying(analyzed[k]) = {analyzed[k].start_col}
          /\ Level(analyzed[k], analyzed[k].start_col) = 6
          /\ Cardinality(DateValues(analyzed[k], analyzed[k].start_col)) = 2
          /\ Cardinality(NumericValues(analyzed[k], analyzed[k].start_col)) = 1

\* C16: a candidate rebuilt from its dict has the candidate's bounding box,
\* header_row and headers, and as scores the candidate's scores rounded to
\* the nearest thousandth; its own dict is the dict it was rebuilt from
Thousandth(r) == 1000 % r[2] = 0

\* |x - r| <= 1/2000
Nearest(x, r) ==
    2000 * Abs(x[1] * r[2] - r[1] * x[2]) <= x[2] * r[2]

Anchor(region) == <<region.start_row, region.start_col>>

RowMajorLess(p, q) == p[1] < q[1] \/ (p[1] = q[1] /\ p[2] < q[2])

UniqueIds(cands) ==
    \A i, j \in Ranks(cands) :
        cands[i].table_id = cands[j].table_id => i = j

C17_DiscoveryOrder ==
    /\ \A i, j \in Ranks(regions) :
          i < j => RowMajorLess(Anchor(regions[i]), Anchor(regions[j]))
    /\ \A k \in Ranks(analyzed) :
          analyzed[k] # None =>
              /\ analyzed[k].table_id = k
              /\ Anchor(analyzed[k]) = Anchor(regions[k])
    /\ UniqueIds(table_candidates)
    /\ UniqueIds(result)

C17_Witness ==
    /\ Completed
    /\ Len(regions) = 2
    /\ regions[1].start_row < regions[2].start_row
    /\ regions[2].start_col < regions[1].start_col
    /\ Len(result) = 2
    /\ result[1].table_id = 2
    /\ result[2].table_id = 1

\* C18: each of two concurrent calls on one detector returns, under every
\* interleaving, the list it returns when it runs alone on its own sheet
RECURSIVE FindDataRegions(_, _, _, _, _, _)
FindDataRegions(dm, vis, pos, regs, mr, mc) ==
    IF Anchors(dm, vis, pos) = {} THEN regs
    ELSE LET a == NextAnchor(dm, vis, pos)
             region == ExpandDataRegion(dm, a[1], a[2], mr, mc)
         IN  FindDataRegions(dm, vis \cup Box(region), a,
                             IF RecordsRegion(region)
                             THEN Append(regs, region) ELSE regs, mr, mc)

RunAlone(sh, minr, minc, maxt) ==
    LET mr == EffectiveMax(sh.max_row)
        mc == EffectiveMax(sh.max_column)
        regs == FindDataRegions(BuildDataMap(sh, mr, mc), {}, <<0, 0>>, <<>>,
                                mr, mc)
        cands == [k \in 1..Len(regs) |-> AnalyzeDataRegion(sh, regs[k], k)]
        kept == SelectSeq(cands, LAMBDA c : PassesFilter(c, minr, minc))
    IN  SliceTo(SortByScore(kept), maxt)

C18_CallsAreIndependent ==
    \A i \in DOMAIN frames :
        frames[i].pc = "done" =>
            frames[i].result = RunAlone(frames[i].sheet, frames[i].min_rows,
                                        frames[i].min_cols,
                                        frames[i].max_tables)

\* one call returns a table while the other is still scanning its own sheet
C18_Witness ==
    /\ frames # <<>>
    /\ frames[1].pc = "done"
    /\ Len(frames[1].result) = 1
    /\ frames[2].pc = "scan"
    /\ frames[2].visited # {}
    /\ frames[2].sheet # frames[1].sheet

\* C19 as stated: growth from an anchor at row r goes on over row r + 1
\* whatever it holds and ends at the first later row without a present cell,
\* so end_row is the last row with a present cell before that row
RowHasPresent(row) ==
    \E p \in DOMAIN sheet.cells : p[1] = row /\ Present(sheet.cells[p])

RowHasData(row, start_col) ==
    \E col \in start_col..LastScanCol(max_col) : PresentAt(row, col)

C20_OneEmptyRowTolerated ==
    \A k \in Ranks(regions) :
        LET e == regions[k].end_row
            c == regions[k].start_col
        IN  e + 2 <= LastScanRow(max_row) =>
                ~(~RowHasData(e + 1, c) /\ RowHasData(e + 2, c))

\* C21: every row of a recorded region, other than the row directly below
\* the anchor, holds a present cell between start_col and end_col
C21_RowsHoldData ==
    \A k \in Ranks(regions) :
        \A row \in regions[k].start_row..regions[k].end_row :
            row # regions[k].start_row + 1 =>
                \E col \in regions[k].start_col..regions[k].end_col :
                    PresentAt(row, col)

\* C22: end_col is the last column c >= start_col such that every column
\* from start_col to c holds a present cell in rows start_row..end_row; the
\* next column, when it is scanned, holds none
ColumnHolds(region, col) ==
    \E row \in region.start_row..region.end_row : PresentAt(row, col)

C22_ColumnGrowth ==
    \A k \in Ranks(regions) :
        LET region == regions[k]
        IN  /\ region.end_col <= LastScanCol(max_col)
            /\ \A col \in region.start_col..region.end_col :
                  ColumnHolds(region, col)
            /\ region.end_col + 1 <= LastScanCol(max_col) =>
                  ~ColumnHolds(region, region.end_col + 1)

\* growth stops at an empty column although a later column holds data
C22_Witness ==
    /\ Completed
    /\ \E k \in Ranks(regions) :
          /\ regions[k].end_col + 2 <= LastScanCol(max_col)
          /\ ~ColumnHolds(regions[k], regions[k].end_col + 1)
          /\ ColumnHolds(regions[k], regions[k].end_col + 2)
          /\ ~PresentAt(regions[k].start_row + 2, regions[k].start_col)

\* C23: the right edge only moves right: end_col is not left of the column
\* that row-direction growth reached in any row it added
FirstPresentCol(row, start_col) ==
    SetMin({col \in start_col..LastScanCol(max_col) : PresentAt(row, col)})

C23_RightEdgeOnlyGrows ==
    \A k \in Ranks(regions) :
        \A row \in regions[k].start_row..regions[k].end_row :
            RowHasData(row, regions[k].start_col) =>
                FirstPresentCol(row, regions[k].start_col)
                    <= regions[k].end_col

\* C24: each expansion adds to visited exactly the cells of one box that
\* starts at its anchor, recorded when the box has 3 rows or more and
\* discarded otherwise; visited only grows; an anchor is never a cell that
\* was visited before; when the scan ends every present scanned cell is
\* visited
Rectangle(a, end_row, end_col) == (a[1]..end_row) \X (a[2]..end_col)

MarksOneBox ==
    scan_pos' # scan_pos =>
        /\ scan_pos' \notin visited
        /\ \E end_row \in scan_pos'[1]..LastScanRow(max_row),
              end_col \in scan_pos'[2]..LastScanCol(max_col) :
              /\ visited' = visited \cup Rectangle(scan_pos', end_row, end_col)
              /\ IF end_row - scan_pos'[1] + 1 >= 3
                 THEN /\ Len(regions') = Len(regions) + 1
                      /\ regions'[Len(regions')]
                            = [start_row |-> scan_pos'[1], end_row |-> end_row,
                               start_col |-> scan_pos'[2], end_col |-> end_col]
                 ELSE regions' = regions

ScannedPresent ==
    {p \in (1..LastScanRow(max_row)) \X (1..LastScanCol(max_col)) :
        PresentAt(p[1], p[2])}

C24_VisitedMarking ==
    [][/\ visited \subseteq visited'
       /\ MarksOneBox
       /\ (pc = "scan" /\ pc' = "analyze") => ScannedPresent \subseteq visited']_vars

\* a box of fewer than 3 rows has been marked and discarded, absent cells
\* included
C24_Witness ==
    /\ pc = "analyze"
    /\ regions = <<>>
    /\ \E p \in visited : ~PresentAt(p[1], p[2])
    /\ \E p \in visited : p[2] = 3 /\ PresentAt(p[1], p[2])

(***************************************************************************)
(* SessionManager: sessions that expire when idle                          *)
(***************************************************************************)
\* timeout_minutes = 30; the router's SESSION_TIMEOUT = timedelta(minutes=30)
SESSION_TIMEOUT == 30

\* the clock stops here
MaxClock == 46

\* the minutes that pass between two calls: less than the timeout, the
\* timeout, more than the timeout
Pauses == {SESSION_TIMEOUT \div 2, SESSION_TIMEOUT, SESSION_TIMEOUT + 1}

BoolV(b) == [t |-> "bool", v |-> b]
DictV(d) == [t |-> "dict", v |-> d]

\* del d[k] for every k of keys that d has
Without(d, keys) == [k \in DOMAIN d \ keys |-> d[k]]

\* d[key] = value
With(d, key, value) ==
    [k \in DOMAIN d \cup {key} |-> IF k = key THEN value ELSE d[k]]

\* d.update(data)
Update(d, data) ==
    [k \in DOMAIN d \cup DOMAIN data |->
        IF k \in DOMAIN data THEN data[k] ELSE d[k]]

\* expired at an idle time equal to the timeout already
ExpiredAtTimeout(ts, current_time) ==
    {id \in DOMAIN ts : current_time - ts[id] >= SESSION_TIMEOUT}

\* expired_sessions: current_time - timestamp > self.timeout
Expired(ts, current_time) ==
    {id \in DOMAIN ts : current_time - ts[id] > SESSION_TIMEOUT}

\* the dict create_session stores
NewSession ==
    [k \in {"raw_data", "processed_data", "analysis_result", "metadata",
            "file_info"} |->
        IF k \in {"raw_data", "processed_data"} THEN None
        ELSE DictV(EmptyDict)]

\* the timestamp stays
KeepTimestamp(ts, session_id) == ts

\* delete_session: if session_id in self.timestamps: del
ForgetTimestamp(ts, session_id) == Without(ts, {session_id})

SessionIds == {"s1", "s2"}

\* the dicts handed to save_session_data: one replaces an entry, one adds one
SavedData ==
    {[k \in {"metadata"} |-> DictV([e \in {"rows"} |-> IntV(3)])],
     [k \in {"note"} |-> Text]}

\* the minutes since the session's timestamp
Idle(session_id) ==
    IF session_id \in DOMAIN timestamps THEN now - timestamps[session_id]
    ELSE NO_INDEX

InitSession ==
    /\ sheet = None
    /\ DetectIdle
    /\ candidate = None
    /\ as_dict = None
    /\ rebuilt = None
    /\ again = None
    /\ frames = <<>>
    /\ NoSessions
    /\ NoUpload

\* time passes between two calls
Pause(minutes) ==
    /\ now + minutes <= MaxClock
    /\ now' = now + minutes
    /\ response' = NoResponse
    /\ UNCHANGED <<sessions, timestamps, inputs, detect, serialized, frames,
                   uploading>>

CleanupExpiredSessions ==
    /\ sessions' = Without(sessions, Expired(timestamps, now))
    /\ timestamps' = Without(timestamps, Expired(timestamps, now))
    /\ response' = Answer("cleanup_expired_sessions", "", NO_INDEX,
                          IntV(Cardinality(Expired(timestamps, now))))
    /\ UNCHANGED <<now, inputs, detect, serialized, frames, uploading>>

GetSession(session_id) ==
    LET expired == Expired(timestamps, now)
        kept == Without(sessions, expired)
    IN  /\ sessions' = kept
        /\ IF session_id \notin DOMAIN kept
           THEN /\ timestamps' = Without(timestamps, expired)
                /\ response' = Answer("get_session", session_id,
                                      Idle(session_id), None)
           ELSE /\ timestamps' = With(Without(timestamps, expired),
                                      session_id, now)
                /\ response' = Answer("get_session", session_id,
                                      Idle(session_id),
                                      DictV(kept[session_id]))
        /\ UNCHANGED <<now, inputs, detect, serialized, frames, uploading>>

SaveSessionData(session_id, data) ==
    /\ IF session_id \notin DOMAIN sessions
       THEN /\ response' = Answer("save_session_data", session_id,
                                  Idle(session_id), BoolV(FALSE))
            /\ UNCHANGED <<sessions, timestamps>>
       ELSE /\ sessions' = With(sessions, session_id,
                                Update(sessions[session_id], data))
            /\ timestamps' = With(timestamps, session_id, now)
            /\ response' = Answer("save_session_data", session_id,
                                  Idle(session_id), BoolV(TRUE))
    /\ UNCHANGED <<now, inputs, detect, serialized, frames, uploading>>

CreateSession(session_id) ==
    LET expired == Expired(timestamps, now)
    IN  /\ sessions' = With(Without(sessions, expired), session_id,
                            NewSession)
        /\ timestamps' = With(Without(timestamps, expired), session_id, now)
        /\ response' = Answer("create_session", session_id,
                              Idle(session_id), DictV(NewSession))
        /\ UNCHANGED <<now, inputs, detect, serialized, frames, uploading>>

DeleteSession(session_id) ==
    /\ sessions' = Without(sessions, {session_id})
    /\ timestamps' = ForgetTimestamp(timestamps, session_id)
    /\ response' = Answer("delete_session", session_id, Idle(session_id),
                          BoolV(session_id \in DOMAIN sessions))
    /\ UNCHANGED <<now, inputs, detect, serialized, frames, uploading>>

\* sessions_info, of which the entries session_id and created_at are kept,
\* as a set: the order of the dict is not kept
ListActiveSessions ==
    LET expired == Expired(timestamps, now)
        kept == Without(timestamps, expired)
    IN  /\ sessions' = Without(sessions, expired)
        /\ timestamps' = kept
        /\ response' = Answer("list_active_sessions", "", NO_INDEX,
                              [t |-> "list",
                               v |-> {[session_id |-> id,
                                       created_at |-> kept[id]] :
                                          id \in DOMAIN kept}])
        /\ UNCHANGED <<now, inputs, detect, serialized, frames, uploading>>

NextSession ==
    \/ \E minutes \in Pauses : Pause(minutes)
    \/ CleanupExpiredSessions
    \/ ListActiveSessions
    \/ \E session_id \in SessionIds :
          \/ GetSession(session_id)
          \/ CreateSession(session_id)
          \/ DeleteSession(session_id)
          \/ \E data \in SavedData : SaveSessionData(session_id, data)

SpecSession == InitSession /\ [][NextSession]_vars

(***************************************************************************)
(* Properties of the sessions                                              *)
(***************************************************************************)
\* the call that has just ended is op on session_id
Ended(op, session_id) ==
    /\ response'.op = op
    /\ response'.session_id = session_id

\* C25: expiry is sliding. A get_session call removes every session whose
\* timestamp (set by create, get and save) lies more than the timeout back
\* and returns None for such a session; for a session whose idle time is at
\* most the timeout it returns the stored data and sets the timestamp to now
C25_SlidingExpiry ==
    [][\A session_id \in SessionIds :
          Ended("get_session", session_id) =>
              /\ \A other \in DOMAIN timestamps :
                    now - timestamps[other] > SESSION_TIMEOUT =>
                        /\ other \notin DOMAIN sessions'
                        /\ other \notin DOMAIN timestamps'
              /\ Idle(session_id) > SESSION_TIMEOUT =>
                    response'.result = None
              /\ (session_id \in DOMAIN sessions
                    /\ Idle(session_id) \in 0..SESSION_TIMEOUT) =>
                    /\ response'.result = DictV(sessions[session_id])
                    /\ sessions'[session_id] = sessions[session_id]
                    /\ timestamps'[session_id] = now]_vars

\* a session last accessed after the start and idle for exactly the timeout
\* was returned by get_session, and it is the only session that is left
C25_Witness ==
    /\ response.op = "get_session"
    /\ response.waited = SESSION_TIMEOUT
    /\ response.result # None
    /\ now > SESSION_TIMEOUT
    /\ DOMAIN sessions = {response.session_id}

\* C27: after every call the ids that hold data are the ids that hold a
\* timestamp, and save_session_data on an id that holds no data returns
\* False and changes neither dict
C27_SameIds ==
    [][/\ DOMAIN sessions' = DOMAIN timestamps'
       /\ \A session_id \in SessionIds \ DOMAIN sessions :
             Ended("save_session_data", session_id) =>
                 /\ response'.result = BoolV(FALSE)
                 /\ sessions' = sessions
                 /\ timestamps' = timestamps]_vars

\* save_session_data was refused for one id while another session, which
\* was saved to before, is kept
C27_Witness ==
    /\ response.op = "save_session_data"
    /\ response.result = BoolV(FALSE)
    /\ response.session_id \notin DOMAIN timestamps
    /\ \E other \in DOMAIN sessions : "note" \in DOMAIN sessions[other]

\* C28: on a session that has been idle for longer than the timeout, get
\* returns None and save returns False, and neither stores data nor renews
\* the timestamp, whether or not a cleanup has run in between
C28_ExpiredStaysExpired ==
    [][\A session_id \in SessionIds :
          (Idle(session_id) > SESSION_TIMEOUT
              /\ (Ended("get_session", session_id)
                    \/ Ended("save_session_data", session_id))) =>
              /\ response'.result \in {None, BoolV(FALSE)}
              /\ session_id \in DOMAIN sessions' =>
                    /\ sessions'[session_id] = sessions[session_id]
                    /\ timestamps'[session_id] = timestamps[session_id]]_vars

(***************************************************************************)
(* The router: upload a workbook, detect its tables, select one            *)
(***************************************************************************)
\* the rows of the uploaded one-column sheets
FlowRows == 3

\* the cells of the uploaded sheets: empty, text, a number
FlowValues == {None, Text, IntV(7)}

\* the ids requests may name: "s1" is the one uuid4 gives an upload
Requested == {"s1", "s2"}

\* the table ids requests may name
TableIds == {1, 2}

\* an HTTP answer: its status and the path or query parameter it is about
Http(status, about) == [t |-> "http", status |-> status, about |-> about]

\* table.to_dict() of a candidate of the named sheet; metadata is left empty
TableDict(cand, name) ==
    ToDict(TableCandidate(cand.table_id, name, cand, cand.header_row,
                          cand.quality_score, cand.data_density, cand,
                          cand.headers, cand.sample_data, <<>>))

\* the first table, whatever its id
FindFirstTable(tables, table_id) ==
    IF Len(tables) > 0 THEN 1 ELSE NO_INDEX

\* the loop over detected_tables['tables']: the position of the first table
\* whose table_id is the one asked for
FindTable(tables, table_id) ==
    LET hits == {n \in 1..Len(tables) : tables[n].table_id = table_id}
    IN  IF hits = {} THEN NO_INDEX ELSE SetMin(hits)

\* extract_table_data; data_types and quality_info are left out
ExtractTableData(sh, table_info) ==
    LET all_data == DataMatrix(sh, table_info.range)
        headers == table_info.headers
        data_start_idx == IF table_info.header_row \notin {NO_INDEX, 0}
                          THEN 1 ELSE 0
        records == [n \in 1..(Len(all_data) - data_start_idx) |->
                       RowDictLoop(headers, all_data[data_start_idx + n], 1,
                                   <<>>)]
    IN  [headers |-> headers, records |-> records,
         total_records |-> Len(records)]

\* parse_excel_sheets: process_excel_sheets on a fresh session id; of
\* file_info the entries file_type and total_sheets are kept
ParseExcelSheets(session_id, sh) ==
    LET expired == Expired(timestamps, now)
        file_info == [k \in {"file_type", "total_sheets"} |->
                         IF k = "file_type"
                         THEN StrV(<<"e", "x", "c", "e", "l">>)
                         ELSE IntV(1)]
        session == Update(NewSession,
                          [k \in {"file_info", "raw_workbook_data"} |->
                              IF k = "file_info" THEN DictV(file_info)
                              ELSE sh])
    IN  /\ session_id \notin DOMAIN sessions
        /\ sessions' = With(Without(sessions, expired), session_id, session)
        /\ timestamps' = With(Without(timestamps, expired), session_id, now)
        /\ response' = Answer("parse_excel_sheets", session_id,
                              Idle(session_id), Http(200, 0))
        /\ UNCHANGED <<now, inputs, detect, serialized, frames, uploading>>

\* detect_tables_in_sheet with the default min_rows and max_tables;
\* detection_info and detection_time are left out of what is stored
DetectTablesInSheet(session_id, minc) ==
    LET expired == Expired(timestamps, now)
        kept == Without(sessions, expired)
        swept == Without(timestamps, expired)
        op == "detect_tables_in_sheet"
    IN  /\ IF session_id \notin DOMAIN kept
           THEN /\ sessions' = kept
                /\ timestamps' = swept
                /\ response' = Answer(op, session_id, Idle(session_id),
                                      Http(404, minc))
           ELSE LET session == kept[session_id]
                IN  IF "raw_workbook_data" \notin DOMAIN session
                    THEN /\ sessions' = kept
                         /\ timestamps' = With(swept, session_id, now)
                         /\ response' = Answer(op, session_id,
                                               Idle(session_id),
                                               Http(404, minc))
                    ELSE LET sh == session["raw_workbook_data"]
                             found == RunAlone(sh, MIN_REGION_ROWS, minc, 10)
                             detected_tables ==
                                 [sheet_name |-> "Sheet1",
                                  tables |-> [n \in 1..Len(found) |->
                                      TableDict(found[n], "Sheet1")]]
                         IN  /\ sessions' = With(kept, session_id,
                                     With(session, "detected_tables",
                                          detected_tables))
                             /\ timestamps' = With(swept, session_id, now)
                             /\ response' = Answer(op, session_id,
                                                   Idle(session_id),
                                                   Http(200, minc))
        /\ UNCHANGED <<now, inputs, detect, serialized, frames, uploading>>

\* select_table; selection_time is left out of what is stored
SelectTable(session_id, table_id) ==
    LET expired == Expired(timestamps, now)
        kept == Without(sessions, expired)
        swept == Without(timestamps, expired)
        refused == Answer("select_table", session_id, Idle(session_id),
                          Http(404, table_id))
    IN  /\ IF session_id \notin DOMAIN kept
           THEN /\ sessions' = kept
                /\ timestamps' = swept
                /\ response' = refused
           ELSE LET session == kept[session_id]
                IN  /\ timestamps' = With(swept, session_id, now)
                    /\ IF "detected_tables" \notin DOMAIN session
                       THEN /\ sessions' = kept
                            /\ response' = refused
                       ELSE LET detected_tables == session["detected_tables"]
                                n == FindTable(detected_tables.tables,
                                               table_id)
                            IN  IF n = NO_INDEX
                                   \/ "raw_workbook_data" \notin DOMAIN session
                                THEN /\ sessions' = kept
                                     /\ response' = refused
                                ELSE LET selected_table ==
                                             detected_tables.tables[n]
                                         full_table_data ==
                                             ExtractTableData(
                                                 session["raw_workbook_data"],
                                                 selected_table)
                                         file_info ==
                                             Update(session["file_info"].v,
                                                 [k \in {"selected_table_id",
                                                     "final_rows",
                                                     "final_columns"} |->
                                                  IF k = "selected_table_id"
                                                  THEN IntV(table_id)
                                                  ELSE IF k = "final_rows"
                                                  THEN IntV(Len(
                                                      full_table_data.records))
                                                  ELSE IntV(Len(
                                                      full_table_data.headers))])
                                     IN  /\ sessions' = With(kept, session_id,
                                             Update(session,
                                                 [k \in {"selected_table",
                                                         "file_info"} |->
                                                     IF k = "file_info"
                                                     THEN DictV(file_info)
                                                     ELSE [table_info |->
                                                               selected_table,
                                                           full_data |->
                                                               full_table_data]]))
                                         /\ response' = Answer("select_table",
                                                session_id, Idle(session_id),
                                                Http(200, table_id))
        /\ UNCHANGED <<now, inputs, detect, serialized, frames, uploading>>

NextFlow ==
    \/ \E minutes \in Pauses : Pause(minutes)
    \/ \E session_id \in {"s1"},
          sh \in Sheets(1, 1, FlowRows, 1, FlowValues, {TRUE}) :
          ParseExcelSheets(session_id, sh)
    \/ \E session_id \in Requested, minc \in {1, 2} :
          DetectTablesInSheet(session_id, minc)
    \/ \E session_id \in Requested, table_id \in TableIds :
          SelectTable(session_id, table_id)

SpecFlow == InitSession /\ [][NextFlow]_vars

(***************************************************************************)
(* Properties of the upload, detect and select steps                       *)
(***************************************************************************)
\* the session is stored and has not been idle for longer than the timeout
Live(session_id) ==
    /\ session_id \in DOMAIN sessions
    /\ Idle(session_id) <= SESSION_TIMEOUT

\* a detection is stored in the live session and holds the table asked for
Selectable(session_id, table_id) ==
    /\ Live(session_id)
    /\ "detected_tables" \in DOMAIN sessions[session_id]
    /\ \E n \in DOMAIN sessions[session_id]["detected_tables"].tables :
          sessions[session_id]["detected_tables"].tables[n].table_id
              = table_id

\* the entries of a session the select step reads and writes
Kept == {"raw_workbook_data", "detected_tables", "selected_table", "file_info"}

HeaderDepth(table_info) ==
    IF table_info.header_row = NO_INDEX THEN 0
    ELSE table_info.header_row - table_info.range.start_row + 1

\* C29: the records extracted for a selected candidate are the region's rows
\* below the detected header row (every row without one), in order, each
\* record holding the row's cells under the headers, and the first records
\* are the candidate's sample_data
C29_RecordsFollowHeader ==
    \A id \in DOMAIN sessions :
        "selected_table" \in DOMAIN sessions[id] =>
            LET sh == sessions[id]["raw_workbook_data"]
                table_info == sessions[id]["selected_table"].table_info
                records == sessions[id]["selected_table"].full_data.records
                depth == HeaderDepth(table_info)
                first_row == table_info.range.start_row + depth
            IN  /\ Len(records) = table_info.range.end_row - first_row + 1
                /\ \A n \in DOMAIN records :
                      \A j \in DOMAIN table_info.headers :
                          Holds(records[n], table_info.headers[j],
                                CellText(CellValue(sh, first_row + n - 1,
                                    table_info.range.start_col + j - 1)))
                /\ \A n \in DOMAIN table_info.sample_data :
                      /\ n \in DOMAIN records
                      /\ records[n] = table_info.sample_data[n]

(***************************************************************************)
(* create_business_request_with_files: upload, then clean up on an error   *)
(***************************************************************************)
\* the most files of one request
MaxFiles == 3

\* the request has passed the validation; its files are numbered, and the
\* storage path of a file is its number
InitUpload ==
    /\ sheet = None
    /\ DetectIdle
    /\ candidate = None
    /\ as_dict = None
    /\ rebuilt = None
    /\ again = None
    /\ frames = <<>>
    /\ NoSessions
    /\ file_data \in {1..n : n \in 1..MaxFiles}
    /\ upload_pc = "insert_request"
    /\ upload_results = [f \in file_data |-> "pending"]
    /\ uploaded_storage_paths = {}
    /\ storage = {}
    /\ business_requests = {}
    /\ file_rows = {}
    /\ http_status = 0

\* the except clause: remove uploaded_storage_paths from the bucket, delete
\* the request's rows of both tables, answer 500
CleanUp(paths) ==
    /\ storage' = storage \ paths
    /\ file_rows' = {}
    /\ business_requests' = {}
    /\ upload_pc' = "failed"
    /\ http_status' = 500

\* step 1: the row of business_requests is inserted, or the insert returns
\* no data and the HTTPException lands in the except clause
InsertRequest ==
    /\ upload_pc = "insert_request"
    /\ \/ /\ business_requests' = {1}
          /\ upload_pc' = "uploading"
          /\ UNCHANGED <<storage, file_rows, http_status>>
       \/ CleanUp(uploaded_storage_paths)
    /\ UNCHANGED <<file_data, upload_results, uploaded_storage_paths,
                   inputs, detect, serialized, frames, store>>

\* upload_single_file on one file, in any order: the object is stored on
\* success; after a timeout the abandoned thread may still store it
UploadSingleFile(f, returned, stored) ==
    /\ upload_pc = "uploading"
    /\ upload_results[f] = "pending"
    /\ stored = TRUE => returned # "error"
    /\ stored = FALSE => returned # "success"
    /\ upload_results' = [upload_results EXCEPT ![f] = returned]
    /\ storage' = IF stored THEN storage \cup {f} ELSE storage
    /\ UNCHANGED <<file_data, upload_pc, uploaded_storage_paths,
                   business_requests, file_rows, http_status,
                   inputs, detect, serialized, frames, store>>

\* after gather: a failed upload raises before uploaded_storage_paths is
\* assigned; otherwise the paths are recorded and the file rows inserted
CheckResults ==
    /\ upload_pc = "uploading"
    /\ \A f \in file_data : upload_results[f] # "pending"
    /\ IF \E f \in file_data : upload_results[f] # "success"
       THEN /\ CleanUp(uploaded_storage_paths)
            /\ UNCHANGED uploaded_storage_paths
       ELSE /\ uploaded_storage_paths' = file_data
            /\ \/ /\ file_rows' = file_data
                  /\ upload_pc' = "succeeded"
                  /\ http_status' = 200
                  /\ UNCHANGED <<storage, business_requests>>
               \/ CleanUp(file_data)
    /\ UNCHANGED <<file_data, upload_results, inputs, detect, serialized,
                   frames, store>>

NextUpload ==
    \/ InsertRequest
    \/ \E f \in file_data, returned \in {"success", "error", "timeout"},
          stored \in BOOLEAN :
          UploadSingleFile(f, returned, stored)
    \/ CheckResults

SpecUpload == InitUpload /\ [][NextUpload]_vars

(***************************************************************************)
(* Properties of the business-request upload                               *)
(***************************************************************************)
\* C30: when the upload has ended in an error, no file of the request is
\* left in the bucket and the request has no row in either table
C30_FailureLeavesNothing ==
    upload_pc = "failed" =>
        /\ storage \cap file_data = {}
        /\ business_requests = {}
        /\ file_rows = {}

====
